---- MODULE Spec2Model ----
(***************************************************************************)
(* Banking ledger worker pipeline (siddarth99/banking-ledger).            *)
(*                                                                         *)
(* Two worker processes of workers/main.go are modelled side by side, one  *)
(* started with RABBITMQ_QUEUE_NAME=account_creator and one with           *)
(* RABBITMQ_QUEUE_NAME=transaction_processor.  Every goroutine of a        *)
(* process is handed the same *pgx.Conn (main.go:62, 130, 154), i.e. the   *)
(* same PostgreSQL session: BEGIN, SELECT ... FOR UPDATE, UPDATE, COMMIT   *)
(* and ROLLBACK of all transaction workers act on one session and on one   *)
(* transaction block.                                                      *)
(*                                                                         *)
(* Money is counted in half cents, so that an amount with more than two    *)
(* decimals (an odd number) can be told from one the DECIMAL(15,2) column  *)
(* can hold (an even number).                                              *)
(***************************************************************************)
EXTENDS Integers, FiniteSets, Sequences, TLC

\* ------------------------------------------------------------------ bounds
\* Messages the broker delivers over the whole run (both queues together).
MaxMsgs == 2
\* Goroutines of the transaction_processor process (NUM_WORKERS).
NumWorkers == 2
\* Goroutines of the account_creator process (NUM_WORKERS).
NumCreators == 1
\* CreateAccount invocations looked at side by side when only the generation
\* of the account number is examined.
NumGenerators == 2
\* Calls of ExecuteInTransaction made one after the other.
MaxExecCalls == 2
\* Statements fn runs on the transaction handle before it returns.
MaxStmts == 2

\* ------------------------------------------------------------ basic values
Workers ==
    ({"transaction_processor"} \X (1..NumWorkers))
        \cup ({"account_creator"} \X (1..NumCreators))

queueOf(w) == w[1]

TxWorkers == {w \in Workers : queueOf(w) = "transaction_processor"}

\* Every goroutine of the process gets the one connection opened by main.
connOf(w) == queueOf(w)

Conns == {connOf(w) : w \in TxWorkers}

\* Values of time.Now().UnixNano() seen by CreateAccount.
Nanos == {0, 1, 9000000}

Branches == {"BR1"}

\* The number without the two reductions, modulo 9000000 and modulo 10000000.
GenerateSuffixNoModulo(nano) == 1000000 + nano

\* randomNumber := 1000000 + time.Now().UnixNano()%9000000, then
\* Sprintf("%s%07d", BranchCode, randomNumber%10000000): the numeric suffix.
GenerateSuffix(nano) == (1000000 + (nano % 9000000)) % 10000000

GenerateAccountNumber(branch, nano) == <<branch, GenerateSuffix(nano)>>

AcctNums == {GenerateAccountNumber(b, n) : b \in Branches, n \in Nanos}

Acct1 == <<"BR1", 1000000>>
Acct2 == <<"BR1", 1000001>>

\* ------------------------------------------------------- the ledger schema
\* The table without its CHECK on the balance.
positive_balance_off(b) == TRUE

\* CONSTRAINT positive_balance CHECK (available_balance >= 0)

positive_balance(b) == b >= 0

\* CHECK (status IN ('ACTIVE', 'DEACTIVATED', 'FROZEN'))
StatusValues == {"ACTIVE", "DEACTIVATED", "FROZEN"}

\* available_balance DECIMAL(15, 2): a value is rounded to two decimals when
\* it is stored (half away from zero).  In half cents: to an even number.
ToDecimal2(x) ==
    IF x >= 0 THEN ((x + 1) \div 2) * 2 ELSE 0 - (((0 - x) + 1) \div 2) * 2

RowOk(row) ==
    /\ positive_balance(row.available_balance)
    /\ row.status \in StatusValues

NewRow(holder, balance, branch, status) ==
    [account_holder_name |-> holder,
     available_balance   |-> ToDecimal2(balance),
     branch_code         |-> branch,
     status              |-> status]

\* Rows the accounts table may hold when the workers start (earlier runs,
\* administrative status changes), before the table's constraints are applied.
SeedRows(a) ==
    IF a = Acct1
    THEN {NewRow("H0", 10, a[1], "ACTIVE"), NewRow("H0", 0 - 2, a[1], "ACTIVE")}
    ELSE {NewRow("H0", 10, a[1], "FROZEN"), NewRow("H0", 10, a[1], "DEACTIVATED")}

\* The ledgers the run can start from: any subset of the account numbers,
\* each with a seed row that satisfies the table's constraints.
InitialLedgers ==
    UNION {
        {l \in [D -> UNION {SeedRows(a) : a \in D}] :
            \A a \in D : l[a] \in SeedRows(a) /\ RowOk(l[a])}
        : D \in SUBSET AcctNums}

\* ------------------------------------------------------------ message bodies
\* A delivery body is either bytes json.Unmarshal rejects, or a JSON object,
\* written as a record of the keys it carries.
Malformed == [malformed |-> TRUE]

Decodable(body) == "malformed" \notin DOMAIN body

Field(body, key, zero) == IF key \in DOMAIN body THEN body[key] ELSE zero

NoAccount == <<"", 0>>

\* json.Unmarshal(d.Body, &transactionInfo): every tagged field of
\* TransactionData present in the body is set, the others keep Go's zero value.
UnmarshalTransactionData(body) ==
    [AccountNumber    |-> Field(body, "accountNumber", NoAccount),
     Amount           |-> Field(body, "amount", 0),
     AvailableBalance |-> Field(body, "availableBalance", 0),
     Type             |-> Field(body, "type", ""),
     TransactionID    |-> Field(body, "transactionId", ""),
     BranchCode       |-> Field(body, "branchCode", "")]

\* json.Unmarshal(d.Body, &accountInfo) into AccountData.
UnmarshalAccountData(body) ==
    [AccountNumber     |-> Field(body, "accountNumber", NoAccount),
     AccountHolderName |-> Field(body, "accountHolderName", ""),
     InitialDeposit    |-> Field(body, "initialDeposit", 0),
     BranchCode        |-> Field(body, "branchCode", ""),
     ReferenceID       |-> Field(body, "referenceID", "")]

NoData == [none |-> TRUE]

TxBody(acct, amount, type) ==
    [accountNumber |-> acct, amount |-> amount, type |-> type,
     transactionId |-> "TX1"]

\* A body that also carries the key availableBalance of TransactionData.
TxBodyWithBalance ==
    [accountNumber |-> Acct2, amount |-> 4, type |-> "DEPOSIT",
     transactionId |-> "TX1", availableBalance |-> 8]

\* Bodies delivered on the transaction_processor queue.
TxBodies ==
    {TxBody(Acct1, 6, "WITHDRAWAL"), TxBody(Acct1, 4, "WITHDRAWAL"),
     TxBody(Acct1, 4, "DEPOSIT"), TxBody(Acct1, 0, "DEPOSIT"),
     TxBody(Acct1, 0 - 2, "WITHDRAWAL"), TxBody(Acct1, 4, "TRANSFER"),
     TxBody(Acct2, 4, "DEPOSIT"), TxBodyWithBalance, Malformed}

AccountBody(deposit) ==
    [accountHolderName |-> "H1", initialDeposit |-> deposit,
     branchCode |-> "BR1", referenceID |-> "REF1"]

\* A body that also carries the key accountNumber of AccountData, with a
\* number CreateAccount does not generate.
PayloadNumber == <<"BR9", 7777777>>

AccountBodyWithNumber ==
    [accountNumber |-> PayloadNumber, accountHolderName |-> "H1",
     initialDeposit |-> 4, branchCode |-> "BR1", referenceID |-> "REF2"]

\* Bodies delivered on the account_creator queue; the deposit of 1 (half a
\* cent) is an amount with three decimals.
AccountBodies ==
    {AccountBody(4), AccountBody(0), AccountBody(1), AccountBody(0 - 2),
     AccountBodyWithNumber, Malformed}

Bodies(queue) ==
    IF queue = "transaction_processor" THEN TxBodies ELSE AccountBodies

\* ------------------------------------------------------------------- state
VARIABLES
    accounts,        \* the accounts table, committed: account number -> row
    sess,            \* per connection: the session's open transaction block
    pc,              \* per worker: where its goroutine stands
    tag,             \* per worker: delivery tag of the message it holds
    Data,            \* per worker: p.Data of the processor built for it
    currentBalance,  \* per worker: transact's local currentBalance
    err,             \* per worker: error of the processing so far
    delivered,       \* deliveries made by the broker so far
    acks,            \* per delivery tag: d.Ack calls
    indexAttempts,   \* per delivery tag: EsConn.Index calls
    esIndex,         \* per delivery tag: the document the audit index holds
    initialBalance,  \* per account: the balance its row started with
    completedNet,    \* per account: deposits minus withdrawals reported COMPLETED
    result,          \* per worker: what its processor returned to the loop
    closed,          \* the channel of deliveries (msgsChan) has been closed
    exec,            \* a call of PostgresConn.ExecuteInTransaction
    api,             \* the HTTP handlers and what they have published
    main,            \* the main routine of the worker process and its wait group
    requeue          \* bodies of unacknowledged deliveries the broker has requeued

vars ==
    <<accounts, sess, pc, tag, Data, currentBalance, err, delivered, acks,
      indexAttempts, esIndex, initialBalance, completedNet, result, closed,
      exec, api, main, requeue>>

Tags == 1..MaxMsgs

IdleSession == [txOpen |-> FALSE, pending |-> <<>>, locks |-> {}]

\* No call of ExecuteInTransaction is in progress.
ExecIdle ==
    [pc |-> "idle", fn |-> "nil", err |-> "nil", ret |-> "none",
     calls |-> <<>>, open |-> FALSE, stmts |-> 0, durable |-> 0, n |-> 0]

\* The state of the workers, which the library code below leaves alone.
workerVars ==
    <<accounts, sess, pc, tag, Data, currentBalance, err, delivered, acks,
      indexAttempts, esIndex, initialBalance, completedNet, result, closed>>

\* main after its loop has started the workers: wg.Add(1) was called once
\* before the loop and once more for every worker, and wg.Wait() is next.
MainStarted == [pc |-> "started", wg |-> 1 + Cardinality(Workers)]

\* No request is being handled and nothing has been published.
ApiIdle ==
    [pc |-> "idle", handler |-> "none", request |-> <<>>, uuids |-> 0,
     id |-> "", status |-> 0, body |-> <<>>, published |-> <<>>]

Init ==
    /\ accounts \in InitialLedgers
    /\ sess = [c \in Conns |-> IdleSession]
    /\ pc = [w \in Workers |-> "idle"]
    /\ tag = [w \in Workers |-> 0]
    /\ Data = [w \in Workers |-> NoData]
    /\ currentBalance = [w \in Workers |-> 0]
    /\ err = [w \in Workers |-> "nil"]
    /\ delivered = 0
    /\ acks = [t \in Tags |-> 0]
    /\ indexAttempts = [t \in Tags |-> 0]
    /\ esIndex = <<>>
    /\ initialBalance = [a \in DOMAIN accounts |-> accounts[a].available_balance]
    /\ completedNet = [a \in DOMAIN accounts |-> 0]
    /\ result = [w \in Workers |-> "none"]
    /\ closed = FALSE
    /\ exec = ExecIdle
    /\ api = ApiIdle
    /\ main = MainStarted
    /\ requeue = <<>>

\* -------------------------------------------------- the PostgreSQL session
Extend(f, k, v) == [x \in DOMAIN f \cup {k} |-> IF x = k THEN v ELSE f[x]]

\* What a statement on connection c sees: the committed rows, overlaid with
\* the uncommitted writes of the session's own open transaction block.
View(c) ==
    [a \in DOMAIN accounts |->
        IF sess[c].txOpen /\ a \in DOMAIN sess[c].pending
        THEN [accounts[a] EXCEPT !.available_balance = sess[c].pending[a]]
        ELSE accounts[a]]

\* A row lock taken by FOR UPDATE or UPDATE blocks other sessions only.
LockFree(c, a) == \A c2 \in Conns \ {c} : a \notin sess[c2].locks

\* The same query without AND status='ACTIVE'.
SelectForUpdateAnyStatus(view, a) == a \in DOMAIN view

\* SELECT available_balance, branch_code FROM accounts
\* WHERE account_number = $1 AND status='ACTIVE' FOR UPDATE

SelectForUpdate(view, a) == a \in DOMAIN view /\ view[a].status = "ACTIVE"

\* ------------------------------------------------------ transact, in steps
\* The switch without the comparison of the balance with the amount.
CalculateNewBalanceNoFundsCheck(type, amount, current) ==
    CASE type = "DEPOSIT" ->
            IF amount <= 0
            THEN [err |-> "deposit amount must be positive", newBalance |-> 0]
            ELSE [err |-> "nil", newBalance |-> current + amount]
      [] type = "WITHDRAWAL" ->
            IF amount <= 0
            THEN [err |-> "withdrawal amount must be positive", newBalance |-> 0]
            ELSE [err |-> "nil", newBalance |-> current - amount]
      [] OTHER -> [err |-> "invalid transaction type", newBalance |-> 0]

\* The switch with amount < 0 in place of amount <= 0, and with every type
\* that is not a withdrawal treated as a deposit.
CalculateNewBalanceLax(type, amount, current) ==
    CASE type = "WITHDRAWAL" ->
            IF amount < 0
            THEN [err |-> "withdrawal amount must be positive", newBalance |-> 0]
            ELSE IF current < amount
            THEN [err |-> "insufficient funds", newBalance |-> 0]
            ELSE [err |-> "nil", newBalance |-> current - amount]
      [] OTHER ->
            IF amount < 0
            THEN [err |-> "deposit amount must be positive", newBalance |-> 0]
            ELSE [err |-> "nil", newBalance |-> current + amount]

\* The switch on p.Data.Type: the error it returns, or the new balance.
CalculateNewBalance(type, amount, current) ==
    CASE type = "DEPOSIT" ->
            IF amount <= 0
            THEN [err |-> "deposit amount must be positive", newBalance |-> 0]
            ELSE [err |-> "nil", newBalance |-> current + amount]
      [] type = "WITHDRAWAL" ->
            IF amount <= 0
            THEN [err |-> "withdrawal amount must be positive", newBalance |-> 0]
            ELSE IF current < amount
            THEN [err |-> "insufficient funds", newBalance |-> 0]
            ELSE [err |-> "nil", newBalance |-> current - amount]
      [] OTHER -> [err |-> "invalid transaction type", newBalance |-> 0]

\* A loop that goes on with the zero value when json.Unmarshal fails.
ReceiveIgnoringDecodeError(w, body) ==
    /\ pc[w] = "idle"
    /\ ~closed
    /\ delivered < MaxMsgs
    /\ body \in Bodies(queueOf(w))
    /\ delivered' = delivered + 1
    /\ tag' = [tag EXCEPT ![w] = delivered + 1]
    /\ err' = [err EXCEPT ![w] = IF Decodable(body) THEN "nil" ELSE "decode"]
    /\ IF queueOf(w) = "transaction_processor"
       THEN /\ pc' = [pc EXCEPT ![w] = "begin"]
            /\ Data' = [Data EXCEPT ![w] = UnmarshalTransactionData(body)]
       ELSE /\ pc' = [pc EXCEPT ![w] = "create"]
            /\ Data' = [Data EXCEPT ![w] = UnmarshalAccountData(body)]
    /\ UNCHANGED <<closed, exec, api, main, requeue>>
    /\ UNCHANGED <<accounts, sess, currentBalance, acks, indexAttempts,
                   esIndex, initialBalance, completedNet, result>>

\* What Receive does to the worker that takes a delivery carrying body.
Take(w, body) ==
    /\ tag' = [tag EXCEPT ![w] = delivered + 1]
    /\ IF ~Decodable(body)
       THEN /\ pc' = [pc EXCEPT ![w] = "ack"]
            /\ err' = [err EXCEPT ![w] = "decode"]
            /\ Data' = Data
       ELSE IF queueOf(w) = "transaction_processor"
       THEN /\ pc' = [pc EXCEPT ![w] = "begin"]
            /\ err' = [err EXCEPT ![w] = "nil"]
            /\ Data' = [Data EXCEPT ![w] = UnmarshalTransactionData(body)]
       ELSE /\ pc' = [pc EXCEPT ![w] = "create"]
            /\ err' = [err EXCEPT ![w] = "nil"]
            /\ Data' = [Data EXCEPT ![w] = UnmarshalAccountData(body)]

\* A consumer registered with auto-ack: the delivery counts as acknowledged
\* when it is handed to the worker.
ReceiveAutoAck(w, body) ==
    /\ pc[w] = "idle"
    /\ ~closed
    /\ delivered < MaxMsgs
    /\ body \in Bodies(queueOf(w))
    /\ delivered' = delivered + 1
    /\ acks' = [acks EXCEPT ![delivered + 1] = @ + 1]
    /\ Take(w, body)
    /\ UNCHANGED <<closed, exec, api, main, requeue>>
    /\ UNCHANGED <<accounts, sess, currentBalance, indexAttempts,
                   esIndex, initialBalance, completedNet, result>>

\* A worker that takes a delivery while it is still busy with the last one.
ReceiveWhileBusy(w, body) ==
    /\ ~closed
    /\ delivered < MaxMsgs
    /\ body \in Bodies(queueOf(w))
    /\ delivered' = delivered + 1
    /\ Take(w, body)
    /\ UNCHANGED <<closed, exec, api, main, requeue>>
    /\ UNCHANGED <<accounts, sess, currentBalance, acks, indexAttempts,
                   esIndex, initialBalance, completedNet, result>>

\* A range loop that still yields deliveries after its channel was closed.
ReceiveAfterClose(w, body) ==
    /\ pc[w] = "idle"
    /\ delivered < MaxMsgs
    /\ body \in Bodies(queueOf(w))
    /\ delivered' = delivered + 1
    /\ Take(w, body)
    /\ UNCHANGED <<closed, exec, api, main, requeue>>
    /\ UNCHANGED <<accounts, sess, currentBalance, acks, indexAttempts,
                   esIndex, initialBalance, completedNet, result>>

\* for d := range msgsChan, json.Unmarshal and the construction of the
\* processor.  A body that does not decode goes straight to d.Ack.
Receive(w, body) ==
    /\ pc[w] = "idle"
    /\ ~closed
    /\ delivered < MaxMsgs
    /\ body \in Bodies(queueOf(w))
    /\ delivered' = delivered + 1
    /\ tag' = [tag EXCEPT ![w] = delivered + 1]
    /\ IF ~Decodable(body)
       THEN /\ pc' = [pc EXCEPT ![w] = "ack"]
            /\ err' = [err EXCEPT ![w] = "decode"]
            /\ Data' = Data
       ELSE IF queueOf(w) = "transaction_processor"
       THEN /\ pc' = [pc EXCEPT ![w] = "begin"]
            /\ err' = [err EXCEPT ![w] = "nil"]
            /\ Data' = [Data EXCEPT ![w] = UnmarshalTransactionData(body)]
       ELSE /\ pc' = [pc EXCEPT ![w] = "create"]
            /\ err' = [err EXCEPT ![w] = "nil"]
            /\ Data' = [Data EXCEPT ![w] = UnmarshalAccountData(body)]
    /\ UNCHANGED <<closed, exec, api, main, requeue>>
    /\ UNCHANGED <<accounts, sess, currentBalance, acks, indexAttempts,
                   esIndex, initialBalance, completedNet, result>>

\* tx, err := p.PgxConn.Begin(ctx).  BEGIN on a session whose block is
\* already open leaves the block as it is and reports success.
Begin(w) ==
    /\ pc[w] = "begin"
    /\ \/ /\ sess' = [sess EXCEPT ![connOf(w)].txOpen = TRUE]
          /\ pc' = [pc EXCEPT ![w] = "query"]
          /\ err' = err
       \/ /\ sess' = sess
          /\ pc' = [pc EXCEPT ![w] = "index"]
          /\ err' = [err EXCEPT ![w] = "failed to begin transaction"]
    /\ UNCHANGED <<closed, exec, api, main, requeue>>
    /\ UNCHANGED <<accounts, tag, Data, currentBalance, delivered, acks,
                   indexAttempts, esIndex, initialBalance, completedNet, result>>

\* tx.QueryRow(...).Scan(&currentBalance, &branchCode), the assignments to
\* p.Data and the switch on the type, up to the UPDATE.
QueryRow(w) ==
    LET c == connOf(w)
        a == Data[w].AccountNumber
        view == View(c)
    IN
    /\ pc[w] = "query"
    /\ \/ /\ SelectForUpdate(view, a)
          /\ LockFree(c, a)
          /\ LET row == view[a]
                 r == CalculateNewBalance(Data[w].Type, Data[w].Amount,
                                          row.available_balance)
             IN
             /\ currentBalance' = [currentBalance EXCEPT ![w] = row.available_balance]
             /\ Data' = [Data EXCEPT ![w].BranchCode = row.branch_code,
                                     ![w].AvailableBalance =
                                         IF r.err = "nil" THEN r.newBalance
                                         ELSE row.available_balance]
             /\ err' = [err EXCEPT ![w] = r.err]
             /\ pc' = [pc EXCEPT ![w] = IF r.err = "nil" THEN "update" ELSE "rollback"]
          /\ sess' = IF sess[c].txOpen
                     THEN [sess EXCEPT ![c].locks = @ \cup {a}]
                     ELSE sess
       \/ /\ ~SelectForUpdate(view, a)
          /\ err' = [err EXCEPT ![w] = "failed to get account balance"]
          /\ pc' = [pc EXCEPT ![w] = "rollback"]
          /\ UNCHANGED <<sess, Data, currentBalance>>
       \/ /\ err' = [err EXCEPT ![w] = "failed to get account balance"]
          /\ pc' = [pc EXCEPT ![w] = "rollback"]
          /\ UNCHANGED <<sess, Data, currentBalance>>
    /\ UNCHANGED <<closed, exec, api, main, requeue>>
    /\ UNCHANGED <<accounts, tag, delivered, acks, indexAttempts, esIndex,
                   initialBalance, completedNet, result>>

\* The UPDATE without its WHERE account_number = $2: every row gets the new
\* balance.
ExecUpdateEveryRow(w) ==
    LET c == connOf(w)
        stored == ToDecimal2(Data[w].AvailableBalance)
    IN
    /\ pc[w] = "update"
    /\ \/ /\ positive_balance(stored)
          /\ IF sess[c].txOpen
             THEN /\ sess' = [sess EXCEPT ![c].pending =
                                 [x \in DOMAIN accounts |-> stored]]
                  /\ accounts' = accounts
             ELSE /\ sess' = sess
                  /\ accounts' = [x \in DOMAIN accounts |->
                                    [accounts[x] EXCEPT !.available_balance = stored]]
          /\ pc' = [pc EXCEPT ![w] = "commit"]
          /\ err' = err
       \/ /\ pc' = [pc EXCEPT ![w] = "rollback"]
          /\ err' = [err EXCEPT ![w] = "failed to update account balance"]
          /\ UNCHANGED <<sess, accounts>>
    /\ UNCHANGED <<closed, exec, api, main, requeue>>
    /\ UNCHANGED <<tag, Data, currentBalance, delivered, acks, indexAttempts,
                   esIndex, initialBalance, completedNet, result>>

\* _, err = tx.Exec(ctx, updateQuery, newBalance, p.Data.AccountNumber), with
\* newBalance as left in p.Data.AvailableBalance.  Inside the session's open
\* block the write stays uncommitted; with no block open (another goroutine
\* has ended it) the statement commits on its own.
ExecUpdate(w) ==
    LET c == connOf(w)
        a == Data[w].AccountNumber
        stored == ToDecimal2(Data[w].AvailableBalance)
    IN
    /\ pc[w] = "update"
    /\ \/ /\ LockFree(c, a)
          /\ positive_balance(stored)
          /\ IF sess[c].txOpen
             THEN /\ sess' = [sess EXCEPT ![c].pending = Extend(@, a, stored),
                                          ![c].locks = @ \cup {a}]
                  /\ accounts' = accounts
             ELSE /\ sess' = sess
                  /\ accounts' = IF a \in DOMAIN accounts
                                 THEN [accounts EXCEPT ![a].available_balance = stored]
                                 ELSE accounts
          /\ pc' = [pc EXCEPT ![w] = "commit"]
          /\ err' = err
       \/ /\ pc' = [pc EXCEPT ![w] = "rollback"]
          /\ err' = [err EXCEPT ![w] = "failed to update account balance"]
          /\ UNCHANGED <<sess, accounts>>
    /\ UNCHANGED <<closed, exec, api, main, requeue>>
    /\ UNCHANGED <<tag, Data, currentBalance, delivered, acks, indexAttempts,
                   esIndex, initialBalance, completedNet, result>>

Signed(type, amount) == IF type = "WITHDRAWAL" THEN 0 - amount ELSE amount

\* tx.Commit(ctx).  COMMIT ends the session's block, whoever opened it, and
\* makes all its writes durable; with no block open it changes nothing and
\* still reports success.  After a successful Commit the deferred
\* tx.Rollback does nothing and transact returns nil.
Commit(w) ==
    LET c == connOf(w)
        a == Data[w].AccountNumber
    IN
    /\ pc[w] = "commit"
    /\ \/ /\ accounts' = View(c)
          /\ sess' = [sess EXCEPT ![c] = IdleSession]
          /\ pc' = [pc EXCEPT ![w] = "index"]
          /\ err' = err
          /\ completedNet' = [completedNet EXCEPT
                                ![a] = @ + Signed(Data[w].Type, Data[w].Amount)]
       \/ /\ pc' = [pc EXCEPT ![w] = "rollback"]
          /\ err' = [err EXCEPT ![w] = "failed to commit transaction"]
          /\ UNCHANGED <<accounts, sess, completedNet>>
    /\ UNCHANGED <<closed, exec, api, main, requeue>>
    /\ UNCHANGED <<tag, Data, currentBalance, delivered, acks, indexAttempts,
                   esIndex, initialBalance, result>>

\* A transact without the deferred tx.Rollback: a return with an error
\* leaves the session as it is.
ReturnWithoutRollback(w) ==
    /\ pc[w] = "rollback"
    /\ sess' = sess
    /\ pc' = [pc EXCEPT ![w] = "index"]
    /\ UNCHANGED <<closed, exec, api, main, requeue>>
    /\ UNCHANGED <<accounts, tag, Data, currentBalance, err, delivered, acks,
                   indexAttempts, esIndex, initialBalance, completedNet, result>>

\* defer tx.Rollback(ctx) on a return with an error: ROLLBACK ends the
\* session's block, whoever opened it, and drops all its writes.
Rollback(w) ==
    /\ pc[w] = "rollback"
    /\ sess' = [sess EXCEPT ![connOf(w)] = IdleSession]
    /\ pc' = [pc EXCEPT ![w] = "index"]
    /\ UNCHANGED <<closed, exec, api, main, requeue>>
    /\ UNCHANGED <<accounts, tag, Data, currentBalance, err, delivered, acks,
                   indexAttempts, esIndex, initialBalance, completedNet, result>>

\* ------------------------------------------------------------ CreateAccount
\* CreateAccount without the check of the initial deposit.
CreateAccountUnvalidated(w, nano) ==
    /\ pc[w] = "create"
    /\ pc' = [pc EXCEPT ![w] = "insert"]
    /\ Data' = [Data EXCEPT ![w].AccountNumber =
                    GenerateAccountNumber(Data[w].BranchCode, nano)]
    /\ UNCHANGED <<closed, exec, api, main, requeue>>
    /\ UNCHANGED <<accounts, sess, tag, currentBalance, err, delivered, acks,
                   indexAttempts, esIndex, initialBalance, completedNet, result>>

\* A CreateAccount that generates a number only when the message brought
\* none.
CreateAccountKeepNumber(w, nano) ==
    /\ pc[w] = "create"
    /\ IF Data[w].InitialDeposit < 0
       THEN /\ err' = [err EXCEPT ![w] = "initial Deposit cannot be negative"]
            /\ result' = [result EXCEPT ![w] = "initial Deposit cannot be negative"]
            /\ pc' = [pc EXCEPT ![w] = "ack"]
            /\ Data' = Data
       ELSE /\ err' = err
            /\ result' = result
            /\ pc' = [pc EXCEPT ![w] = "insert"]
            /\ Data' = IF Data[w].AccountNumber # NoAccount
                       THEN Data
                       ELSE [Data EXCEPT ![w].AccountNumber =
                                GenerateAccountNumber(Data[w].BranchCode, nano)]
    /\ UNCHANGED <<closed, exec, api, main, requeue>>
    /\ UNCHANGED <<accounts, sess, tag, currentBalance, delivered, acks,
                   indexAttempts, esIndex, initialBalance, completedNet>>

\* The validation of the initial deposit and the generation of the number.
CreateAccount(w, nano) ==
    /\ pc[w] = "create"
    /\ IF Data[w].InitialDeposit < 0
       THEN /\ err' = [err EXCEPT ![w] = "initial Deposit cannot be negative"]
            /\ result' = [result EXCEPT ![w] = "initial Deposit cannot be negative"]
            /\ pc' = [pc EXCEPT ![w] = "ack"]
            /\ Data' = Data
       ELSE /\ err' = err
            /\ result' = result
            /\ pc' = [pc EXCEPT ![w] = "insert"]
            /\ Data' = [Data EXCEPT ![w].AccountNumber =
                            GenerateAccountNumber(Data[w].BranchCode, nano)]
    /\ UNCHANGED <<closed, exec, api, main, requeue>>
    /\ UNCHANGED <<accounts, sess, tag, currentBalance, delivered, acks,
                   indexAttempts, esIndex, initialBalance, completedNet>>

\* An insert whose failure does not end CreateAccount: the audit document is
\* still written.
InsertRecordingFailure(w) ==
    LET a == Data[w].AccountNumber
        row == NewRow(Data[w].AccountHolderName, Data[w].InitialDeposit,
                      Data[w].BranchCode, "ACTIVE")
    IN
    /\ pc[w] = "insert"
    /\ pc' = [pc EXCEPT ![w] = "index"]
    /\ \/ /\ a \notin DOMAIN accounts
          /\ RowOk(row)
          /\ accounts' = Extend(accounts, a, row)
          /\ initialBalance' = Extend(initialBalance, a, row.available_balance)
          /\ completedNet' = Extend(completedNet, a, 0)
          /\ err' = err
       \/ /\ err' = [err EXCEPT ![w] = "failed to create account"]
          /\ UNCHANGED <<accounts, initialBalance, completedNet>>
    /\ UNCHANGED <<closed, exec, api, main, requeue>>
    /\ UNCHANGED <<sess, tag, Data, currentBalance, delivered, acks,
                   indexAttempts, esIndex, result>>

\* An INSERT ... ON CONFLICT (account_number) DO UPDATE: a number that is
\* already taken gets the new row.
InsertOrReplace(w) ==
    LET a == Data[w].AccountNumber
        row == NewRow(Data[w].AccountHolderName, Data[w].InitialDeposit,
                      Data[w].BranchCode, "ACTIVE")
    IN
    /\ pc[w] = "insert"
    /\ \/ /\ RowOk(row)
          /\ accounts' = Extend(accounts, a, row)
          /\ initialBalance' = Extend(initialBalance, a, row.available_balance)
          /\ completedNet' = Extend(completedNet, a, 0)
          /\ pc' = [pc EXCEPT ![w] = "index"]
          /\ err' = err
          /\ result' = result
       \/ /\ pc' = [pc EXCEPT ![w] = "ack"]
          /\ err' = [err EXCEPT ![w] = "failed to create account"]
          /\ result' = [result EXCEPT ![w] = "failed to create account"]
          /\ UNCHANGED <<accounts, initialBalance, completedNet>>
    /\ UNCHANGED <<closed, exec, api, main, requeue>>
    /\ UNCHANGED <<sess, tag, Data, currentBalance, delivered, acks,
                   indexAttempts, esIndex>>

\* p.PgxConn.Exec(ctx, INSERT INTO accounts ...), a statement that commits on
\* its own: it fails on a duplicate account_number (PRIMARY KEY), on a
\* violated CHECK, or when the store cannot be reached.
Insert(w) ==
    LET a == Data[w].AccountNumber
        row == NewRow(Data[w].AccountHolderName, Data[w].InitialDeposit,
                      Data[w].BranchCode, "ACTIVE")
    IN
    /\ pc[w] = "insert"
    /\ \/ /\ a \notin DOMAIN accounts
          /\ RowOk(row)
          /\ accounts' = Extend(accounts, a, row)
          /\ initialBalance' = Extend(initialBalance, a, row.available_balance)
          /\ completedNet' = Extend(completedNet, a, 0)
          /\ pc' = [pc EXCEPT ![w] = "index"]
          /\ err' = err
          /\ result' = result
       \/ /\ pc' = [pc EXCEPT ![w] = "ack"]
          /\ err' = [err EXCEPT ![w] = "failed to create account"]
          /\ result' = [result EXCEPT ![w] = "failed to create account"]
          /\ UNCHANGED <<accounts, initialBalance, completedNet>>
    /\ UNCHANGED <<closed, exec, api, main, requeue>>
    /\ UNCHANGED <<sess, tag, Data, currentBalance, delivered, acks,
                   indexAttempts, esIndex>>

\* ---------------------------------------------------------- the audit index
\* The TransactionDocument built by ProcessTransaction.
TransactionDoc(d, e) ==
    [transaction_id |-> d.TransactionID,
     account_number |-> d.AccountNumber,
     amount |-> d.Amount,
     type |-> d.Type,
     status |-> IF e = "nil" THEN "COMPLETED" ELSE "FAILED",
     branch_code |-> d.BranchCode,
     balance_after_transaction |-> d.AvailableBalance]

\* The TransactionDocument built by CreateAccount.
AccountDoc(d) ==
    [transaction_id |-> d.ReferenceID,
     account_number |-> d.AccountNumber,
     amount |-> d.InitialDeposit,
     type |-> "DEPOSIT",
     status |-> "COMPLETED",
     branch_code |-> d.BranchCode,
     balance_after_transaction |-> d.InitialDeposit]

DocOf(w) ==
    IF queueOf(w) = "transaction_processor"
    THEN TransactionDoc(Data[w], err[w])
    ELSE AccountDoc(Data[w])

\* A ProcessTransaction that hands the error of transact to its caller.
ReturnTransactError(transactErr, indexErr) == transactErr

\* A ProcessTransaction that hands the error of the index call to its caller.
ReturnIndexError(transactErr, indexErr) == indexErr

\* The end of ProcessTransaction: the error of transact and the error of the
\* index call are logged, and the function returns nil.
ProcessTransactionReturn(transactErr, indexErr) == "nil"

\* A CreateAccount that hands the error of the index call to its caller.
ReturnIndexErrorOfCreate(indexErr) == indexErr

\* The end of CreateAccount, after the insert succeeded: the error of the
\* index call is logged, and the function returns nil.
CreateAccountReturn(indexErr) == "nil"

\* What the processor of worker w returns after its index call.
ReturnOf(w, indexErr) ==
    IF queueOf(w) = "transaction_processor"
    THEN ProcessTransactionReturn(err[w], indexErr)
    ELSE CreateAccountReturn(indexErr)

\* An index call made only for a transaction that succeeded.
IndexIfCompleted(w) ==
    /\ pc[w] = "index"
    /\ IF err[w] = "nil"
       THEN /\ indexAttempts' = [indexAttempts EXCEPT ![tag[w]] = @ + 1]
            /\ esIndex' = Extend(esIndex, tag[w], DocOf(w))
       ELSE UNCHANGED <<indexAttempts, esIndex>>
    /\ result' = [result EXCEPT ![w] = "nil"]
    /\ pc' = [pc EXCEPT ![w] = "ack"]
    /\ UNCHANGED <<closed, exec, api, main, requeue>>
    /\ UNCHANGED <<accounts, sess, tag, Data, currentBalance, err, delivered,
                   acks, initialBalance, completedNet>>

\* p.EsConn.Index(indexName, req): one call, whose failure is only logged.
Index(w) ==
    /\ pc[w] = "index"
    /\ indexAttempts' = [indexAttempts EXCEPT ![tag[w]] = @ + 1]
    /\ \/ /\ esIndex' = Extend(esIndex, tag[w], DocOf(w))
          /\ result' = [result EXCEPT ![w] = ReturnOf(w, "nil")]
       \/ /\ esIndex' = esIndex
          /\ result' = [result EXCEPT ![w] = ReturnOf(w, "failed to index")]
    /\ pc' = [pc EXCEPT ![w] = "ack"]
    /\ UNCHANGED <<closed, exec, api, main, requeue>>
    /\ UNCHANGED <<accounts, sess, tag, Data, currentBalance, err, delivered,
                   acks, initialBalance, completedNet>>

\* A loop that acknowledges only what was processed without an error.
AckUnlessError(w) ==
    /\ pc[w] = "ack"
    /\ acks' = IF err[w] = "nil" THEN [acks EXCEPT ![tag[w]] = @ + 1] ELSE acks
    /\ pc' = [pc EXCEPT ![w] = "idle"]
    /\ tag' = [tag EXCEPT ![w] = 0]
    /\ Data' = [Data EXCEPT ![w] = NoData]
    /\ currentBalance' = [currentBalance EXCEPT ![w] = 0]
    /\ err' = [err EXCEPT ![w] = "nil"]
    /\ result' = [result EXCEPT ![w] = "none"]
    /\ UNCHANGED <<closed, exec, api, main, requeue>>
    /\ UNCHANGED <<accounts, sess, delivered, indexAttempts, esIndex,
                   initialBalance, completedNet>>

\* d.Ack(false), after which the goroutine waits for its next delivery.
Ack(w) ==
    /\ pc[w] = "ack"
    /\ acks' = [acks EXCEPT ![tag[w]] = @ + 1]
    /\ pc' = [pc EXCEPT ![w] = "idle"]
    /\ tag' = [tag EXCEPT ![w] = 0]
    /\ Data' = [Data EXCEPT ![w] = NoData]
    /\ currentBalance' = [currentBalance EXCEPT ![w] = 0]
    /\ err' = [err EXCEPT ![w] = "nil"]
    /\ result' = [result EXCEPT ![w] = "none"]
    /\ UNCHANGED <<closed, exec, api, main, requeue>>
    /\ UNCHANGED <<accounts, sess, delivered, indexAttempts, esIndex,
                   initialBalance, completedNet>>

Next ==
    \E w \in Workers :
        \/ \E body \in TxBodies \cup AccountBodies : Receive(w, body)
        \/ Begin(w)
        \/ QueryRow(w)
        \/ ExecUpdate(w)
        \/ Commit(w)
        \/ Rollback(w)
        \/ \E nano \in Nanos : CreateAccount(w, nano)
        \/ Insert(w)
        \/ Index(w)
        \/ Ack(w)

Spec == Init /\ [][Next]_vars

\* ------------------------------------------ the generation of account numbers
\* CreateAccount up to the generated number, for a wider choice of branch
\* codes and clock values than the workers above are run with.
GenWorkers == {"account_creator"} \X (1..NumGenerators)

\* Values of time.Now().UnixNano(): around the multiples of 9000000.
GenNanos == {0, 1, 8999999, 9000000, 9000001, 2000000000}

GenBranches == {"", "BR1", "BRANCH"}

DigitChars == <<"0", "1", "2", "3", "4", "5", "6", "7", "8", "9">>

\* The decimal digits of n >= 0, most significant first.
RECURSIVE DigitsOf(_)
DigitsOf(n) ==
    IF n < 10 THEN <<n>> ELSE Append(DigitsOf(n \div 10), n % 10)

\* The verb %07d for n >= 0: the digits of n, padded with zeros on the left
\* to a width of 7, and never cut.
RECURSIVE PadZeros(_)
PadZeros(ds) == IF Len(ds) >= 7 THEN ds ELSE PadZeros(<<0>> \o ds)

Format07d(n) == PadZeros(DigitsOf(n))

RECURSIVE Join(_)
Join(ds) == IF ds = <<>> THEN "" ELSE DigitChars[Head(ds) + 1] \o Join(Tail(ds))

\* fmt.Sprintf("%s%07d", p.Data.BranchCode, randomNumber%10000000) for the
\* account number a = <<branch code, randomNumber%10000000>>.
Sprintf(a) == a[1] \o Join(Format07d(a[2]))

GenRequest(branch) ==
    [accountHolderName |-> "H1", initialDeposit |-> 4,
     branchCode |-> branch, referenceID |-> "REF1"]

GenInit ==
    /\ accounts = <<>>
    /\ sess = [c \in Conns |-> IdleSession]
    /\ pc = [w \in GenWorkers |-> "create"]
    /\ tag = [w \in GenWorkers |-> 0]
    /\ Data \in [GenWorkers ->
                    {UnmarshalAccountData(GenRequest(b)) : b \in GenBranches}]
    /\ currentBalance = [w \in GenWorkers |-> 0]
    /\ err = [w \in GenWorkers |-> "nil"]
    /\ delivered = 0
    /\ acks = [t \in Tags |-> 0]
    /\ indexAttempts = [t \in Tags |-> 0]
    /\ esIndex = <<>>
    /\ initialBalance = <<>>
    /\ completedNet = <<>>
    /\ result = [w \in GenWorkers |-> "none"]
    /\ closed = FALSE
    /\ exec = ExecIdle
    /\ api = ApiIdle
    /\ main = MainStarted
    /\ requeue = <<>>

GenNext == \E w \in GenWorkers : \E nano \in GenNanos : CreateAccount(w, nano)

GenSpec == GenInit /\ [][GenNext]_vars

\* ------------------------------------------------ two accounts side by side
\* The transaction workers alone, started on a ledger that holds two
\* accounts, with valid transactions on either of them.
PairLedgers ==
    {[a \in {Acct1, Acct2} |->
         NewRow("H0", 10, a[1], IF a = Acct1 THEN "ACTIVE" ELSE st)]
     : st \in {"ACTIVE", "FROZEN"}}

PairBodies ==
    {TxBody(Acct1, 4, "DEPOSIT"), TxBody(Acct1, 4, "WITHDRAWAL"),
     TxBody(Acct2, 4, "DEPOSIT")}

PairInit ==
    /\ accounts \in PairLedgers
    /\ \A a \in DOMAIN accounts : RowOk(accounts[a])
    /\ sess = [c \in Conns |-> IdleSession]
    /\ pc = [w \in Workers |-> "idle"]
    /\ tag = [w \in Workers |-> 0]
    /\ Data = [w \in Workers |-> NoData]
    /\ currentBalance = [w \in Workers |-> 0]
    /\ err = [w \in Workers |-> "nil"]
    /\ delivered = 0
    /\ acks = [t \in Tags |-> 0]
    /\ indexAttempts = [t \in Tags |-> 0]
    /\ esIndex = <<>>
    /\ initialBalance = [a \in DOMAIN accounts |-> accounts[a].available_balance]
    /\ completedNet = [a \in DOMAIN accounts |-> 0]
    /\ result = [w \in Workers |-> "none"]
    /\ closed = FALSE
    /\ exec = ExecIdle
    /\ api = ApiIdle
    /\ main = MainStarted
    /\ requeue = <<>>

PairNext ==
    \E w \in TxWorkers :
        \/ \E body \in PairBodies : Receive(w, body)
        \/ Begin(w)
        \/ QueryRow(w)
        \/ ExecUpdate(w)
        \/ Commit(w)
        \/ Rollback(w)
        \/ Index(w)
        \/ Ack(w)

PairSpec == PairInit /\ [][PairNext]_vars

\* ------------------------------------------- PostgresConn.ExecuteInTransaction
\* exec.fn is how the fn passed in will end, exec.err the function's variable
\* err, exec.ret what the call hands back ("panic" when it unwinds),
\* exec.calls the calls made on the connection and the transaction handle,
\* exec.open whether the transaction is still open, exec.stmts the writes of
\* fn in it and exec.durable the writes committed so far.
FnOutcomes == {"nil", "fn error", "panic"}

\* tx, err := p.conn.Begin(ctx); on an error the function returns it before
\* the deferred function is registered.
ExecuteInTransaction(fn) ==
    /\ exec.pc = "idle"
    /\ exec.n < MaxExecCalls
    /\ \/ exec' = [exec EXCEPT !.pc = "fn", !.fn = fn, !.n = @ + 1,
                                !.calls = <<"Begin">>, !.open = TRUE]
       \/ exec' = [exec EXCEPT !.pc = "returned", !.fn = fn, !.n = @ + 1,
                                !.calls = <<"Begin">>,
                                !.err = "begin error", !.ret = "begin error"]
    /\ UNCHANGED <<workerVars, api, main, requeue>>

\* fn(tx) runs a statement on the transaction handle.
FnStatement ==
    /\ exec.pc = "fn"
    /\ exec.stmts < MaxStmts
    /\ exec' = [exec EXCEPT !.stmts = @ + 1]
    /\ UNCHANGED <<workerVars, api, main, requeue>>

\* if err = fn(tx); err != nil { return err }.  When fn panics the
\* assignment to err never happens.
FnReturn ==
    /\ exec.pc = "fn"
    /\ exec' = CASE exec.fn = "nil" -> [exec EXCEPT !.pc = "commit"]
                [] exec.fn = "fn error" ->
                      [exec EXCEPT !.pc = "deferred", !.err = "fn error",
                                   !.ret = "fn error"]
                [] OTHER -> [exec EXCEPT !.pc = "deferred", !.ret = "panic"]
    /\ UNCHANGED <<workerVars, api, main, requeue>>

\* return tx.Commit(ctx): the result of Commit is the value returned; it is
\* not assigned to err.  What a failed Commit leaves of the transaction is up
\* to the driver.
TxCommit ==
    /\ exec.pc = "commit"
    /\ \/ exec' = [exec EXCEPT !.pc = "deferred", !.ret = "nil",
                                !.calls = Append(@, "Commit"), !.open = FALSE,
                                !.durable = @ + exec.stmts]
       \/ \E o \in BOOLEAN :
             exec' = [exec EXCEPT !.pc = "deferred", !.ret = "commit error",
                                  !.calls = Append(@, "Commit"), !.open = o]
    /\ UNCHANGED <<workerVars, api, main, requeue>>

\* A deferred function that rolls back whatever err holds.
DeferredRollbackAlways ==
    /\ exec.pc = "deferred"
    /\ exec' = [exec EXCEPT !.pc = "returned",
                            !.calls = Append(@, "Rollback"), !.open = FALSE]
    /\ UNCHANGED <<workerVars, api, main, requeue>>

\* defer func() { if err != nil { _ = tx.Rollback(ctx) } }()
DeferredRollback ==
    /\ exec.pc = "deferred"
    /\ exec' = IF exec.err # "nil"
               THEN [exec EXCEPT !.pc = "returned",
                                 !.calls = Append(@, "Rollback"),
                                 !.open = FALSE]
               ELSE [exec EXCEPT !.pc = "returned"]
    /\ UNCHANGED <<workerVars, api, main, requeue>>

\* The caller has the result (or has recovered from the panic) and may call
\* again on the same connection.
ExecDone ==
    /\ exec.pc = "returned"
    /\ ~exec.open
    /\ exec' = [ExecIdle EXCEPT !.durable = exec.durable, !.n = exec.n]
    /\ UNCHANGED <<workerVars, api, main, requeue>>

ExecInit == Init /\ accounts = <<>>

ExecNext ==
    \/ \E fn \in FnOutcomes : ExecuteInTransaction(fn)
    \/ FnStatement
    \/ FnReturn
    \/ TxCommit
    \/ DeferredRollback
    \/ ExecDone

ExecSpec == ExecInit /\ [][ExecNext]_vars

\* ------------------------------------------------- closing the message source
\* msgsChan is closed (the broker channel or connection went away, or the
\* consumer was cancelled); the program itself never closes it.
CloseSource ==
    /\ ~closed
    /\ closed' = TRUE
    /\ UNCHANGED <<accounts, sess, pc, tag, Data, currentBalance, err, delivered,
                   acks, indexAttempts, esIndex, initialBalance, completedNet,
                   result, exec, api, main, requeue>>

\* for d := range msgsChan ends for a worker waiting on the closed channel;
\* the goroutine returns and its deferred waitGroup.Done() runs.
Exit(w) ==
    /\ pc[w] = "idle"
    /\ closed
    /\ pc' = [pc EXCEPT ![w] = "exited"]
    /\ main' = [main EXCEPT !.wg = @ - 1]
    /\ UNCHANGED <<accounts, sess, tag, Data, currentBalance, err, delivered,
                   acks, indexAttempts, esIndex, initialBalance, completedNet,
                   result, closed, exec, api, requeue>>

\* wg.Wait(): main blocks in the call until the counter of the wait group is
\* zero, and returns from it - and, main ending, the process terminates -
\* when it is.
WgWait ==
    /\ \/ main.pc = "started"
       \/ main.pc = "waiting" /\ main.wg = 0
    /\ main' = [main EXCEPT !.pc = IF main.wg = 0 THEN "returned" ELSE "waiting"]
    /\ UNCHANGED <<workerVars, exec, api, requeue>>

\* The deliveries of the runs in which the source is closed.
ShutdownBodies ==
    {TxBody(Acct1, 4, "WITHDRAWAL"), Malformed, AccountBody(4)}

ShutdownInit ==
    /\ Init
    /\ accounts = [a \in {Acct1} |-> NewRow("H0", 10, a[1], "ACTIVE")]

\* What a worker does once it holds a delivery.
Process(w) ==
    \/ Begin(w)
    \/ QueryRow(w)
    \/ ExecUpdate(w)
    \/ Commit(w)
    \/ Rollback(w)
    \/ \E nano \in Nanos : CreateAccount(w, nano)
    \/ Insert(w)
    \/ Index(w)
    \/ Ack(w)

ShutdownNext ==
    \/ CloseSource
    \/ \E w \in Workers :
        \/ \E body \in ShutdownBodies : Receive(w, body)
        \/ Process(w)
        \/ Exit(w)

\* Every call a worker makes returns, and a goroutine that can run does:
\* a worker holding a delivery goes on, and one waiting on the closed channel
\* leaves its loop.  Nothing obliges the broker to deliver or the source to
\* be closed.
ShutdownSpec ==
    /\ ShutdownInit
    /\ [][ShutdownNext]_vars
    /\ \A w \in Workers : WF_vars(Process(w)) /\ WF_vars(Exit(w))

\* The workers of Spec when every call they make returns and every
\* goroutine that can run does; nothing obliges the broker to deliver.
ProgressSpec ==
    /\ Init
    /\ [][Next]_vars
    /\ \A w \in Workers : WF_vars(Process(w))

\* The workers as above, with the main routine that waits for them.
TerminationNext ==
    \/ ShutdownNext
    \/ WgWait

TerminationSpec ==
    /\ ShutdownInit
    /\ [][TerminationNext]_vars
    /\ \A w \in Workers : WF_vars(Process(w)) /\ WF_vars(Exit(w))
    /\ WF_vars(WgWait)

\* ------------------------------------------------------------- redelivery
\* The message a worker holds, as the broker still has it: transact changes
\* only AvailableBalance and BranchCode of p.Data.
BodyOf(d) == TxBody(d.AccountNumber, d.Amount, d.Type)

RECURSIVE SeqOf(_)
SeqOf(S) ==
    IF S = {} THEN <<>>
    ELSE LET x == CHOOSE y \in S : TRUE IN <<x>> \o SeqOf(S \ {x})

\* The worker process stops, wherever its workers stand, and is started
\* again.  Its connection to the database is gone, so the server rolls back
\* the session's open block; the deliveries the workers held were never
\* acknowledged (the consumer is registered with auto-ack false), so the
\* broker puts them back on the queue.
Restart ==
    LET held == {w \in TxWorkers : tag[w] # 0 /\ err[w] # "decode"}
    IN
    /\ held # {}
    /\ requeue' = requeue \o SeqOf({BodyOf(Data[w]) : w \in held})
    /\ sess' = [c \in Conns |-> IdleSession]
    /\ pc' = [w \in Workers |-> "idle"]
    /\ tag' = [w \in Workers |-> 0]
    /\ Data' = [w \in Workers |-> NoData]
    /\ currentBalance' = [w \in Workers |-> 0]
    /\ err' = [w \in Workers |-> "nil"]
    /\ result' = [w \in Workers |-> "none"]
    /\ UNCHANGED <<accounts, delivered, acks, indexAttempts, esIndex,
                   initialBalance, completedNet, closed, exec, api, main>>

\* The broker delivers a requeued message again, under a new delivery tag.
Redeliver(w) ==
    /\ pc[w] = "idle"
    /\ ~closed
    /\ delivered < MaxMsgs
    /\ requeue # <<>>
    /\ delivered' = delivered + 1
    /\ Take(w, Head(requeue))
    /\ requeue' = Tail(requeue)
    /\ UNCHANGED <<accounts, sess, currentBalance, acks, indexAttempts, esIndex,
                   initialBalance, completedNet, result, closed, exec, api, main>>

\* One message is published; the broker delivers it, and delivers it again
\* when the worker process stopped before acknowledging it.
RedeliveryNext ==
    \/ Restart
    \/ \E w \in TxWorkers :
        \/ delivered = 0 /\ \E body \in PairBodies : Receive(w, body)
        \/ Redeliver(w)
        \/ Begin(w)
        \/ QueryRow(w)
        \/ ExecUpdate(w)
        \/ Commit(w)
        \/ Rollback(w)
        \/ Index(w)
        \/ Ack(w)

RedeliverySpec == PairInit /\ [][RedeliveryNext]_vars

\* ------------------------------------------------------------ HTTP handlers
\* api.handler and api.request are the route and the JSON body of the last
\* request, api.status and api.body the answer it got, api.id the id set on
\* the request struct, api.uuids the number of ids uuid.New() has given out
\* and api.published the messages handed to the broker, oldest first.
Handlers == {"createAccount", "transact"}

\* The queue name main hands to the handler of each route.
QueueName(h) ==
    IF h = "createAccount" THEN "account_creator" ELSE "transaction_processor"

\* The JSON keys of AccountRequest and TransactionRequest.
StructKeys(h) ==
    IF h = "createAccount"
    THEN {"accountHolderName", "branchCode", "initialDeposit", "referenceID"}
    ELSE {"accountNumber", "amount", "type", "description", "transactionId"}

\* The fields tagged binding:"required".
RequiredKeys(h) ==
    IF h = "createAccount"
    THEN {"accountHolderName", "branchCode", "initialDeposit"}
    ELSE {"accountNumber", "amount", "type"}

\* The zero value of the field's Go type: float64 or string.
ZeroOf(key) == IF key \in {"initialDeposit", "amount"} THEN 0 ELSE ""

\* The field that carries the tracking id, and its key in the 202 answer.
IdKey(h) == IF h = "createAccount" THEN "referenceID" ELSE "transactionId"

ResponseKey(h) == IF h = "createAccount" THEN "referenceID" ELSE "transactionID"

\* The request struct after decoding req: keys the struct does not have are
\* dropped, fields the body does not carry keep their zero value.
Decode(h, req) == [k \in StructKeys(h) |-> Field(req, k, ZeroOf(k))]

\* A binder that checks only that the body is JSON.
ShouldBindJSONLax(h, req) == Decodable(req)

\* c.ShouldBindJSON(&request) succeeds: the body decodes and no required
\* field is left at its zero value.
ShouldBindJSON(h, req) ==
    /\ Decodable(req)
    /\ \A k \in RequiredKeys(h) : Decode(h, req)[k] # ZeroOf(k)

\* uuid.New().String() for the n-th id given out.
Uuid(n) == "uuid-" \o Join(DigitsOf(n))

MaxRequests == 3

\* Request bodies sent to the two routes.
ApiRequests(h) ==
    IF h = "createAccount"
    THEN {[accountHolderName |-> "H1", branchCode |-> "BR1", initialDeposit |-> 4],
          [accountHolderName |-> "H1", branchCode |-> "BR1", initialDeposit |-> 4,
           referenceID |-> "CLIENT"],
          [accountHolderName |-> "H1", branchCode |-> "BR1", initialDeposit |-> 0 - 2],
          [accountHolderName |-> "H1", branchCode |-> "BR1", initialDeposit |-> 0],
          [accountHolderName |-> "", branchCode |-> "BR1", initialDeposit |-> 4],
          [accountHolderName |-> "H1", initialDeposit |-> 4],
          Malformed}
    ELSE {[accountNumber |-> "BR11000000", amount |-> 4, type |-> "DEPOSIT"],
          [accountNumber |-> "BR11000000", amount |-> 4, type |-> "WITHDRAWAL",
           transactionId |-> "CLIENT", description |-> "d"],
          [accountNumber |-> "BR11000000", amount |-> 0, type |-> "DEPOSIT"],
          [accountNumber |-> "BR11000000", amount |-> 4],
          [amount |-> 4, type |-> "DEPOSIT", transactionId |-> "CLIENT"],
          Malformed}

\* c.JSON(status, gin.H{"errorCode": status, "error": err.Error()}).
ErrorBody(status) == [errorCode |-> status, error |-> "error"]

\* The handler returned by CreateAccountHandler or TransactionHandler, run on
\* one request, with createAccount / createTransaction inlined; publishOk is
\* whether internal.PublishWithContext returns nil.
Handler(h, req, publishOk) ==
    /\ api.uuids < MaxRequests
    /\ IF ~ShouldBindJSON(h, req)
       THEN api' = [api EXCEPT !.pc = "responded", !.handler = h, !.request = req,
                               !.id = "", !.status = 400, !.body = ErrorBody(400)]
       ELSE LET id == Uuid(api.uuids + 1)
                msg == [Decode(h, req) EXCEPT ![IdKey(h)] = id]
            IN
            IF publishOk
            THEN api' = [api EXCEPT
                    !.pc = "responded", !.handler = h, !.request = req,
                    !.uuids = @ + 1, !.id = id, !.status = 202,
                    !.body = [k \in {ResponseKey(h), "createdAt"} |->
                                 IF k = "createdAt" THEN "now" ELSE id],
                    !.published = Append(@, [exchange |-> "", key |-> QueueName(h),
                                             body |-> msg])]
            ELSE api' = [api EXCEPT
                    !.pc = "responded", !.handler = h, !.request = req,
                    !.uuids = @ + 1, !.id = id, !.status = 500,
                    !.body = ErrorBody(500)]
    /\ UNCHANGED <<workerVars, exec, main, requeue>>

CreateAccountHandler(req, publishOk) == Handler("createAccount", req, publishOk)

TransactionHandler(req, publishOk) == Handler("transact", req, publishOk)

ApiNext ==
    \E publishOk \in BOOLEAN :
        \/ \E req \in ApiRequests("createAccount") : CreateAccountHandler(req, publishOk)
        \/ \E req \in ApiRequests("transact") : TransactionHandler(req, publishOk)

ApiInit == Init /\ accounts = <<>>

ApiSpec == ApiInit /\ [][ApiNext]_vars

\* ------------------------------------------------------------------ claims
Held(t) == \E w \in Workers : tag[w] = t

IsTx(w) == queueOf(w) = "transaction_processor" /\ pc[w] \notin {"idle"} /\ err[w] # "decode"

\* The worker has read its account's row under FOR UPDATE and has neither
\* committed nor rolled back since.
InCritical(w) ==
    \/ pc[w] \in {"update", "commit"}
    \/ pc[w] = "rollback" /\ err[w] # "failed to get account balance"

\* C1: in every committed state of the ledger every account's available
\* balance is >= 0.
C1_BalanceNonNegative ==
    \A a \in DOMAIN accounts : accounts[a].available_balance >= 0

\* A withdrawal that was reported COMPLETED has brought an account to zero.
C1_Witness ==
    \E a \in DOMAIN accounts :
        accounts[a].available_balance = 0 /\ completedNet[a] < 0

\* C2: whenever no transaction is in progress, every account's committed
\* balance is its initial balance plus the deposits minus the withdrawals
\* that were reported COMPLETED.
C2_BalanceIsSumOfCompleted ==
    (\A w \in TxWorkers : pc[w] = "idle") =>
        \A a \in DOMAIN accounts :
            accounts[a].available_balance = initialBalance[a] + completedNet[a]

\* C3: of two withdrawals of one account held by two workers, each affordable
\* alone and not both together, with no other message delivered and no
\* failure of the store, exactly one is COMPLETED and the other fails for
\* insufficient funds, and the balance is not negative.
C3_OneOfTwoWithdrawals ==
    \A w1, w2 \in TxWorkers :
        LET a == Data[w1].AccountNumber
            ok == {w \in {w1, w2} : err[w] = "nil"}
            short == {w \in {w1, w2} : err[w] = "insufficient funds"}
        IN
        ( /\ w1 # w2
          /\ delivered = 2
          /\ pc[w1] = "ack" /\ pc[w2] = "ack"
          /\ IsTx(w1) /\ IsTx(w2)
          /\ Data[w1].Type = "WITHDRAWAL" /\ Data[w2].Type = "WITHDRAWAL"
          /\ Data[w2].AccountNumber = a
          /\ a \in DOMAIN accounts
          /\ Data[w1].Amount > 0 /\ Data[w2].Amount > 0
          /\ Data[w1].Amount <= initialBalance[a]
          /\ Data[w2].Amount <= initialBalance[a]
          /\ Data[w1].Amount + Data[w2].Amount > initialBalance[a]
          /\ {w1, w2} = ok \cup short )
        => /\ Cardinality(ok) = 1
           /\ Cardinality(short) = 1
           /\ accounts[a].available_balance >= 0

\* C4: no two workers are at the same time between their locked read of one
\* account and their commit or rollback.
C4_Serialized ==
    \A w1, w2 \in TxWorkers :
        (w1 # w2 /\ InCritical(w1) /\ InCritical(w2))
            => Data[w1].AccountNumber # Data[w2].AccountNumber

\* C5: every delivery is acknowledged exactly once: not while a worker holds
\* it, and once when the worker has let go of it, whatever the processing
\* came to.
C5_AckedExactlyOnce ==
    \A t \in Tags :
        acks[t] = IF t <= delivered /\ ~Held(t) THEN 1 ELSE 0

\* A delivery that was never indexed (undecodable, or a rejected account
\* creation) and one recorded FAILED have both been acknowledged.
C5_Witness ==
    /\ \E t \in Tags : acks[t] = 1 /\ indexAttempts[t] = 0
    /\ \E t \in Tags :
            acks[t] = 1 /\ t \in DOMAIN esIndex /\ esIndex[t].status = "FAILED"

\* C6: a transaction message whose processing has returned has caused exactly
\* one call of the audit index if it decoded and none if it did not; no
\* delivery ever causes more than one.
C6_OneIndexAttempt ==
    /\ \A t \in Tags : indexAttempts[t] <= 1
    /\ \A w \in TxWorkers :
        /\ pc[w] = "ack" =>
              indexAttempts[tag[w]] = IF err[w] = "decode" THEN 0 ELSE 1
        /\ pc[w] \in {"begin", "query", "update", "commit", "rollback", "index"}
              => indexAttempts[tag[w]] = 0

\* Processing that failed at Begin, and processing that failed at Commit,
\* have each called the index once.
C6_Witness ==
    /\ \E w \in TxWorkers :
        /\ pc[w] = "ack"
        /\ err[w] = "failed to begin transaction"
        /\ indexAttempts[tag[w]] = 1
    /\ \E w \in TxWorkers :
        /\ pc[w] = "ack"
        /\ err[w] = "failed to commit transaction"
        /\ indexAttempts[tag[w]] = 1

\* The worker's transact has read the row of its account.
HasRead(w) ==
    \/ pc[w] \in {"update", "commit"}
    \/ /\ pc[w] \in {"rollback", "index", "ack"}
       /\ err[w] \notin {"failed to begin transaction",
                         "failed to get account balance"}

Returned(w) == pc[w] \in {"rollback", "index", "ack"}

\* The step is one of worker w.
StepOf(w) == pc'[w] # pc[w]

\* What the step stores in the audit index for w's delivery, if anything,
\* is a FAILED document.
StoresFailed(w) ==
    (pc[w] = "index" /\ tag[w] \in DOMAIN esIndex')
        => esIndex'[tag[w]].status = "FAILED"

\* C7: a Commit that succeeds after Begin, the locked read, the validation
\* and the UPDATE succeeded leaves the ledger balance of the account at
\* current + amount (DEPOSIT) or current - amount (WITHDRAWAL), and the audit
\* document is COMPLETED with that balance, the message's id, account, amount
\* and type, and the branch code of the ledger row.
C7_SuccessPath ==
    [][\A w \in TxWorkers :
          (pc[w] = "commit" /\ pc'[w] = "index") =>
              LET a == Data[w].AccountNumber
                  new == currentBalance[w] + Signed(Data[w].Type, Data[w].Amount)
                  doc == TransactionDoc(Data'[w], err'[w])
              IN
              /\ accounts'[a].available_balance = new
              /\ doc.status = "COMPLETED"
              /\ doc.balance_after_transaction = new
              /\ doc.transaction_id = Data[w].TransactionID
              /\ doc.account_number = a
              /\ doc.amount = Data[w].Amount
              /\ doc.type = Data[w].Type
              /\ doc.branch_code = accounts'[a].branch_code]_vars

Short(w) ==
    /\ IsTx(w)
    /\ HasRead(w)
    /\ Data[w].Type = "WITHDRAWAL"
    /\ Data[w].Amount > currentBalance[w]

\* C8: a WITHDRAWAL of more than the balance read is never taken to the
\* UPDATE: transact returns "insufficient funds" into the rollback, no step
\* of the worker changes the ledger, and its audit document is FAILED.
C8_InsufficientFunds ==
    [][\A w \in TxWorkers :
          Short(w) =>
              /\ Returned(w)
              /\ err[w] = "insufficient funds"
              /\ DocOf(w).status = "FAILED"
              /\ StepOf(w) =>
                    /\ accounts' = accounts
                    /\ StoresFailed(w)
                    /\ pc[w] = "rollback" => sess'[connOf(w)] = IdleSession]_vars

\* A withdrawal beyond the balance has been recorded FAILED, the balance
\* being what was read.
C8_Witness ==
    \E w \in TxWorkers :
        /\ Short(w)
        /\ pc[w] = "ack"
        /\ tag[w] \in DOMAIN esIndex
        /\ esIndex[tag[w]].status = "FAILED"
        /\ accounts[Data[w].AccountNumber].available_balance = currentBalance[w]

Invalid(w) ==
    /\ IsTx(w)
    /\ \/ Data[w].Type \notin {"DEPOSIT", "WITHDRAWAL"}
       \/ Data[w].Amount <= 0

ValidationErrors ==
    {"deposit amount must be positive", "withdrawal amount must be positive",
     "invalid transaction type"}

\* C9: a transaction whose amount is <= 0 or whose type is neither DEPOSIT
\* nor WITHDRAWAL is never taken to the UPDATE: once its row is read transact
\* returns the validation error into the rollback, no step of the worker
\* changes the ledger, and its audit document is FAILED.
C9_ValidationFailure ==
    [][\A w \in TxWorkers :
          Invalid(w) =>
              /\ pc[w] \notin {"update", "commit"}
              /\ HasRead(w) => err[w] \in ValidationErrors
              /\ Returned(w) => DocOf(w).status = "FAILED"
              /\ StepOf(w) =>
                    /\ accounts' = accounts
                    /\ StoresFailed(w)
                    /\ pc[w] = "rollback" => sess'[connOf(w)] = IdleSession]_vars

\* A deposit of a non-positive amount and a transaction of an unknown type
\* have both been read, rejected and recorded FAILED.
C9_Witness ==
    \E w1, w2 \in TxWorkers :
        /\ Invalid(w1) /\ Invalid(w2)
        /\ pc[w1] = "ack" /\ pc[w2] = "ack"
        /\ err[w1] = "deposit amount must be positive"
        /\ err[w2] = "invalid transaction type"
        /\ tag[w1] \in DOMAIN esIndex /\ esIndex[tag[w1]].status = "FAILED"
        /\ tag[w2] \in DOMAIN esIndex /\ esIndex[tag[w2]].status = "FAILED"

NotActive(a) == a \notin DOMAIN accounts \/ accounts[a].status # "ACTIVE"

\* C10: a locked read for an account that does not exist or is not ACTIVE
\* fails; from there the worker rolls back, calls the audit index once with
\* a FAILED document, and no step of it changes a ledger row.
C10_NoActiveAccount ==
    [][\A w \in TxWorkers :
          /\ (pc[w] = "query" /\ NotActive(Data[w].AccountNumber) /\ StepOf(w)) =>
                /\ pc'[w] = "rollback"
                /\ err'[w] = "failed to get account balance"
          /\ (IsTx(w) /\ err[w] = "failed to get account balance") =>
                /\ Returned(w)
                /\ DocOf(w).status = "FAILED"
                /\ StepOf(w) =>
                      /\ accounts' = accounts
                      /\ StoresFailed(w)
                      /\ pc[w] = "rollback" =>
                            pc'[w] = "index" /\ sess'[connOf(w)] = IdleSession
                      /\ pc[w] = "index" =>
                            indexAttempts'[tag[w]] = indexAttempts[tag[w]] + 1]_vars

\* A transaction on a missing account and one on an account that is not
\* ACTIVE have both been recorded FAILED.
C10_Witness ==
    \E w1, w2 \in TxWorkers :
        /\ pc[w1] = "ack" /\ pc[w2] = "ack"
        /\ err[w1] = "failed to get account balance"
        /\ err[w2] = "failed to get account balance"
        /\ Data[w1].AccountNumber \notin DOMAIN accounts
        /\ Data[w2].AccountNumber \in DOMAIN accounts
        /\ accounts[Data[w2].AccountNumber].status \in {"FROZEN", "DEACTIVATED"}
        /\ tag[w1] \in DOMAIN esIndex /\ esIndex[tag[w1]].status = "FAILED"
        /\ tag[w2] \in DOMAIN esIndex /\ esIndex[tag[w2]].status = "FAILED"

\* The errors transact returns after it has read the balance.
FailuresAfterRead ==
    ValidationErrors \cup {"insufficient funds",
                           "failed to update account balance",
                           "failed to commit transaction"}

\* The errors transact returns before it has read a balance.
FailuresBeforeRead ==
    {"failed to begin transaction", "failed to get account balance"}

\* The worker's transaction has been processed and its document is in the
\* audit index.
Recorded(w) == IsTx(w) /\ pc[w] = "ack" /\ tag[w] \in DOMAIN esIndex

\* C11: when transact fails after the balance was read (validation, UPDATE
\* or Commit failure), the FAILED audit document carries the balance that
\* was read under the lock as balance_after_transaction.
C11_FailedCarriesBalanceRead ==
    \A w \in TxWorkers :
        (Recorded(w) /\ err[w] \in FailuresAfterRead) =>
            /\ esIndex[tag[w]].status = "FAILED"
            /\ esIndex[tag[w]].balance_after_transaction = currentBalance[w]

\* C12: when transact fails before any balance is read (Begin fails, or the
\* locked read returns no ACTIVE row), the FAILED audit document of any
\* decodable message carries 0 as balance_after_transaction.
C12_FailedBeforeReadCarriesZero ==
    \A w \in TxWorkers :
        (Recorded(w) /\ err[w] \in FailuresBeforeRead) =>
            /\ esIndex[tag[w]].status = "FAILED"
            /\ esIndex[tag[w]].balance_after_transaction = 0

\* C13: the index call of ProcessTransaction, whether it succeeds or fails,
\* changes neither the ledger nor the session, and ProcessTransaction then
\* returns nil.
C13_IndexFailureKeepsLedger ==
    [][\A w \in TxWorkers :
          (pc[w] = "index" /\ StepOf(w)) =>
              /\ accounts' = accounts
              /\ sess' = sess
              /\ completedNet' = completedNet
              /\ pc'[w] = "ack"
              /\ result'[w] = "nil"]_vars

\* A transaction was committed, its index call failed, the new balance is in
\* the ledger and the processor returned nil.
C13_Witness ==
    \E w \in TxWorkers :
        /\ IsTx(w) /\ pc[w] = "ack" /\ err[w] = "nil"
        /\ indexAttempts[tag[w]] = 1
        /\ tag[w] \notin DOMAIN esIndex
        /\ result[w] = "nil"
        /\ accounts[Data[w].AccountNumber].available_balance
              = currentBalance[w] + Signed(Data[w].Type, Data[w].Amount)
        /\ accounts[Data[w].AccountNumber].available_balance
              # initialBalance[Data[w].AccountNumber]

\* C14: when Begin or Commit fails, ProcessTransaction returns an error to
\* the worker loop.
C14_InfrastructureErrorReturned ==
    \A w \in TxWorkers :
        ( /\ IsTx(w) /\ pc[w] = "ack"
          /\ err[w] \in {"failed to begin transaction",
                         "failed to commit transaction"} )
            => result[w] \notin {"nil", "none"}

\* C15: when transact fails at Begin, for insufficient funds, for a
\* non-positive amount or for an invalid type, ProcessTransaction returns
\* nil; the index call was made, and what it stored is a FAILED document.
C15_LedgerFailureReturnsNil ==
    \A w \in TxWorkers :
        ( /\ IsTx(w) /\ pc[w] = "ack"
          /\ err[w] \in ValidationErrors \cup {"failed to begin transaction",
                                               "insufficient funds"} )
            => /\ result[w] = "nil"
               /\ indexAttempts[tag[w]] = 1
               /\ tag[w] \in DOMAIN esIndex
                    => esIndex[tag[w]].status = "FAILED"

\* A Begin failure and a transaction of an invalid type have both been
\* recorded FAILED, and both processors returned nil.
C15_Witness ==
    \E w1, w2 \in TxWorkers :
        /\ IsTx(w1) /\ IsTx(w2)
        /\ pc[w1] = "ack" /\ pc[w2] = "ack"
        /\ err[w1] = "failed to begin transaction"
        /\ err[w2] = "invalid transaction type"
        /\ result[w1] = "nil" /\ result[w2] = "nil"
        /\ tag[w1] \in DOMAIN esIndex /\ esIndex[tag[w1]].status = "FAILED"
        /\ tag[w2] \in DOMAIN esIndex /\ esIndex[tag[w2]].status = "FAILED"

Creators == Workers \ TxWorkers

\* C16: a worker that holds a body it could not decode has built no
\* processor and called none, the audit index has no document and no call for
\* the delivery, and the worker's one step is the acknowledgement, which
\* changes neither ledger nor index and leaves the worker ready for the next
\* delivery.
C16_UndecodableDropped ==
    [][\A w \in Workers :
          err[w] = "decode" =>
              /\ pc[w] = "ack"
              /\ Data[w] = NoData
              /\ result[w] = "none"
              /\ indexAttempts[tag[w]] = 0
              /\ tag[w] \notin DOMAIN esIndex
              /\ StepOf(w) =>
                    /\ accounts' = accounts
                    /\ sess' = sess
                    /\ esIndex' = esIndex
                    /\ indexAttempts' = indexAttempts
                    /\ acks'[tag[w]] = acks[tag[w]] + 1
                    /\ pc'[w] = "idle"]_vars

\* An undecodable body is held as the second delivery, after a first
\* delivery that was also dropped without a trace.
C16_Witness ==
    \E w \in Workers :
        /\ err[w] = "decode" /\ pc[w] = "ack" /\ tag[w] = 2
        /\ acks[1] = 1 /\ indexAttempts[1] = 0
        /\ esIndex = <<>>

RejectedDeposit == "initial Deposit cannot be negative"

\* C17: CreateAccount with a negative initial deposit returns an error
\* without generating a number, inserting a row or calling the audit index;
\* with an initial deposit >= 0 (0 included) it goes on to the insert.
C17_NegativeDepositRejected ==
    [][\A w \in Creators :
          /\ (pc[w] = "create" /\ StepOf(w)) =>
                IF Data[w].InitialDeposit < 0
                THEN /\ pc'[w] = "ack"
                     /\ result'[w] = RejectedDeposit
                     /\ accounts' = accounts
                     /\ esIndex' = esIndex
                     /\ indexAttempts' = indexAttempts
                ELSE /\ pc'[w] = "insert"
                     /\ result'[w] = "none"
          /\ (pc[w] = "ack" /\ err[w] = RejectedDeposit) =>
                /\ result[w] = RejectedDeposit
                /\ Data[w].AccountNumber = NoAccount
                /\ indexAttempts[tag[w]] = 0
                /\ tag[w] \notin DOMAIN esIndex
                /\ StepOf(w) =>
                      /\ accounts' = accounts
                      /\ esIndex' = esIndex
                      /\ indexAttempts' = indexAttempts]_vars

\* An account was created with a deposit of 0, and a creation with a
\* negative deposit has been rejected.
C17_Witness ==
    /\ \E a \in DOMAIN accounts :
          /\ accounts[a].account_holder_name = "H1"
          /\ accounts[a].available_balance = 0
    /\ \E w \in Creators :
          /\ pc[w] = "ack" /\ err[w] = RejectedDeposit
          /\ Data[w].InitialDeposit < 0

InsertFailed == "failed to create account"

\* C18: an insert that fails leaves the accounts table as it was, makes
\* CreateAccount return an error at once, and no call of the audit index is
\* made for the delivery.
C18_InsertFailure ==
    [][\A w \in Creators :
          /\ (pc[w] = "insert" /\ StepOf(w)) =>
                \/ /\ pc'[w] = "index"
                   /\ Data[w].AccountNumber \in DOMAIN accounts' \ DOMAIN accounts
                \/ /\ pc'[w] = "ack"
                   /\ err'[w] = InsertFailed
                   /\ result'[w] = InsertFailed
                   /\ accounts' = accounts
                   /\ esIndex' = esIndex
                   /\ indexAttempts' = indexAttempts
          /\ (pc[w] = "ack" /\ err[w] = InsertFailed) =>
                /\ result[w] = InsertFailed
                /\ indexAttempts[tag[w]] = 0
                /\ tag[w] \notin DOMAIN esIndex
                /\ StepOf(w) =>
                      /\ accounts' = accounts
                      /\ esIndex' = esIndex
                      /\ indexAttempts' = indexAttempts]_vars

\* An insert has failed for a number no account has, and the delivery has
\* left nothing in the ledger or in the audit index.
C18_Witness ==
    \E w \in Creators :
        /\ pc[w] = "ack" /\ err[w] = InsertFailed
        /\ Data[w].InitialDeposit >= 0
        /\ Data[w].AccountNumber \notin DOMAIN accounts
        /\ tag[w] \notin DOMAIN esIndex

\* C19: a successful insert adds exactly one row, under the generated
\* number, ACTIVE, with the holder name and branch code of the request and
\* the initial deposit as available balance; the document then written has
\* the reference id, the generated number, type DEPOSIT, status COMPLETED,
\* and the initial deposit as amount and as balance_after_transaction.
C19_CreateAccountSuccess ==
    [][\A w \in Creators :
          LET a == Data[w].AccountNumber IN
          /\ (pc[w] = "insert" /\ pc'[w] = "index") =>
                /\ a \notin DOMAIN accounts
                /\ DOMAIN accounts' = DOMAIN accounts \cup {a}
                /\ \A b \in DOMAIN accounts : accounts'[b] = accounts[b]
                /\ accounts'[a] =
                      [account_holder_name |-> Data[w].AccountHolderName,
                       available_balance   |-> Data[w].InitialDeposit,
                       branch_code         |-> Data[w].BranchCode,
                       status              |-> "ACTIVE"]
          /\ (pc[w] = "index" /\ StepOf(w)) =>
                /\ indexAttempts'[tag[w]] = indexAttempts[tag[w]] + 1
                /\ tag[w] \in DOMAIN esIndex' =>
                      esIndex'[tag[w]] =
                          [transaction_id |-> Data[w].ReferenceID,
                           account_number |-> a,
                           amount |-> Data[w].InitialDeposit,
                           type |-> "DEPOSIT",
                           status |-> "COMPLETED",
                           branch_code |-> Data[w].BranchCode,
                           balance_after_transaction |-> Data[w].InitialDeposit]]_vars

\* C20: the index call of CreateAccount, whether it succeeds or fails,
\* leaves the accounts table as it was, inserted row included, and
\* CreateAccount then returns nil.
C20_IndexFailureKeepsAccount ==
    [][\A w \in Creators :
          (pc[w] = "index" /\ StepOf(w)) =>
              /\ Data[w].AccountNumber \in DOMAIN accounts
              /\ accounts' = accounts
              /\ pc'[w] = "ack"
              /\ result'[w] = "nil"]_vars

\* An account was inserted, the index call failed, CreateAccount returned
\* nil and the row is in the ledger as inserted.
C20_Witness ==
    \E w \in Creators :
        /\ pc[w] = "ack" /\ err[w] = "nil" /\ result[w] = "nil"
        /\ indexAttempts[tag[w]] = 1
        /\ tag[w] \notin DOMAIN esIndex
        /\ Data[w].AccountNumber \in DOMAIN accounts
        /\ accounts[Data[w].AccountNumber] =
              NewRow(Data[w].AccountHolderName, Data[w].InitialDeposit,
                     Data[w].BranchCode, "ACTIVE")

Generated(w) == pc[w] = "insert"

\* C21: for every branch code and every clock value the generated account
\* number is the branch code followed by exactly 7 decimal digits: its
\* length is the length of the branch code plus 7.
C21_AccountNumberFormat ==
    \A w \in DOMAIN pc :
        (queueOf(w) = "account_creator" /\ Generated(w)) =>
            LET a == Data[w].AccountNumber IN
            /\ a[1] = Data[w].BranchCode
            /\ Len(Format07d(a[2])) = 7
            /\ \A i \in 1..7 : Format07d(a[2])[i] \in 0..9
            /\ Sprintf(a) = Data[w].BranchCode \o Join(Format07d(a[2]))
            /\ Len(Sprintf(a)) = Len(Data[w].BranchCode) + 7

\* Numbers were generated for a branch code of 6 characters and for the
\* empty branch code, one of them at the largest suffix.
C21_Witness ==
    \E w1, w2 \in GenWorkers :
        /\ w1 \in DOMAIN pc /\ w2 \in DOMAIN pc
        /\ Generated(w1) /\ Generated(w2)
        /\ Sprintf(Data[w1].AccountNumber) = "BRANCH9999999"
        /\ Len(Sprintf(Data[w1].AccountNumber)) = 13
        /\ Sprintf(Data[w2].AccountNumber) = "1000001"

\* C22: the account numbers generated by two CreateAccount invocations for
\* the same branch code are different.
C22_AccountNumbersDistinct ==
    \A w1, w2 \in GenWorkers :
        ( /\ w1 \in DOMAIN pc /\ w2 \in DOMAIN pc
          /\ w1 # w2
          /\ Generated(w1) /\ Generated(w2)
          /\ Data[w1].BranchCode = Data[w2].BranchCode )
            => Sprintf(Data[w1].AccountNumber) # Sprintf(Data[w2].AccountNumber)

Count(calls, name) == Cardinality({i \in 1..Len(calls) : calls[i] = name})

ExecReturned == exec.pc = "returned" /\ exec.calls # <<>> /\ exec.err # "begin error"

\* C23: once Begin succeeded, a call whose fn returned nil has invoked
\* Commit exactly once and Rollback not at all; a call whose fn returned an
\* error has invoked Rollback, never Commit, has committed nothing and
\* returns fn's error.
C23_CommitIffFnSucceeds ==
    /\ []((ExecReturned /\ exec.fn = "nil") =>
            /\ Count(exec.calls, "Commit") = 1
            /\ Count(exec.calls, "Rollback") = 0
            /\ exec.ret \in {"nil", "commit error"})
    /\ []((ExecReturned /\ exec.fn = "fn error") =>
            /\ Count(exec.calls, "Rollback") = 1
            /\ Count(exec.calls, "Commit") = 0
            /\ exec.ret = "fn error"
            /\ ~exec.open)
    /\ [][(exec.durable' # exec.durable) =>
              /\ exec.pc = "commit" /\ exec.fn = "nil"
              /\ exec.durable' = exec.durable + exec.stmts]_vars

\* A second call, whose fn wrote twice and returned an error, was rolled
\* back after a first call had committed two writes.
C23_Witness ==
    /\ ExecReturned
    /\ exec.fn = "fn error"
    /\ exec.stmts = 2
    /\ exec.durable = 2
    /\ exec.calls = <<"Begin", "Rollback">>

\* C24: once Begin succeeded, every call that ends with an error - fn's
\* error, an error of Commit, or a panic of fn - has invoked Rollback, and
\* the transaction is not left open.
C24_RollbackOnEveryError ==
    (ExecReturned /\ exec.ret # "nil") =>
        /\ Count(exec.calls, "Rollback") = 1
        /\ ~exec.open

\* C25: of two workers that hold transactions on different accounts, each
\* gets the outcome it would have alone: a transaction reported COMPLETED
\* has left current + amount (or current - amount) in the ledger, and one
\* that failed has left the balance of its account as it was.
C25_DifferentAccountsIndependent ==
    \A w1, w2 \in TxWorkers :
        LET a1 == Data[w1].AccountNumber IN
        ( /\ w1 # w2
          /\ IsTx(w1) /\ IsTx(w2)
          /\ a1 # Data[w2].AccountNumber
          /\ a1 \in DOMAIN accounts
          /\ pc[w1] \in {"index", "ack"} )
            => accounts[a1].available_balance =
                  IF err[w1] = "nil"
                  THEN initialBalance[a1] + Signed(Data[w1].Type, Data[w1].Amount)
                  ELSE initialBalance[a1]

\* C26: a delivery is not acknowledged while a worker holds it; the
\* acknowledgement is the step of the worker that holds it, taken after the
\* processor invoked for a decoded body has returned - for a transaction,
\* after its call of the audit index.
C26_AckAfterProcessing ==
    [][/\ \A w \in Workers :
            /\ tag[w] # 0 => acks[tag[w]] = 0
            /\ (tag[w] # 0 /\ acks'[tag[w]] # acks[tag[w]]) =>
                  /\ pc[w] = "ack"
                  /\ err[w] # "decode" =>
                        /\ result[w] # "none"
                        /\ result[w] = "nil" => indexAttempts[tag[w]] = 1
       /\ \A t \in Tags :
            acks'[t] # acks[t] => \E w \in Workers : tag[w] = t /\ StepOf(w)]_vars

\* One worker is in the middle of its ledger step and another has its
\* processor back from the index call; neither delivery is acknowledged.
C26_Witness ==
    \E w1, w2 \in TxWorkers :
        /\ pc[w1] = "commit" /\ acks[tag[w1]] = 0
        /\ pc[w2] = "ack" /\ result[w2] = "nil"
        /\ indexAttempts[tag[w2]] = 1 /\ acks[tag[w2]] = 0

\* C28: no delivery is held by two workers; a worker holds a delivery
\* exactly while it is not idle; it takes a delivery only when idle, and
\* then the next one the broker hands out, which no other worker gets; it
\* lets go of a delivery only by acknowledging it.
C28_OneMessageAtATime ==
    [][/\ \A w1, w2 \in Workers :
            (w1 # w2 /\ tag[w1] # 0) => tag[w1] # tag[w2]
       /\ \A w \in Workers :
            /\ pc[w] = "idle" <=> tag[w] = 0
            /\ tag'[w] # tag[w] =>
                  \/ /\ pc[w] = "idle"
                     /\ tag'[w] = delivered + 1
                     /\ delivered' = delivered + 1
                     /\ \A w2 \in Workers \ {w} : tag'[w2] = tag[w2]
                  \/ /\ pc[w] = "ack"
                     /\ tag'[w] = 0
                     /\ acks'[tag[w]] = 1
       /\ delivered' # delivered => \E w \in Workers : tag'[w] = delivered']_vars

\* The second delivery is held by a worker after the first one was
\* acknowledged, all other workers being idle.
C28_Witness ==
    \E w \in Workers :
        /\ tag[w] = 2 /\ pc[w] \notin {"idle", "ack"}
        /\ acks[1] = 1
        /\ \A w2 \in Workers \ {w} : pc[w2] = "idle"

\* C30: a WITHDRAWAL of exactly the balance read is not rejected, and when
\* its Commit succeeds the ledger balance of the account is 0 and the audit
\* document is COMPLETED with balance_after_transaction 0.
C30_WithdrawalOfWholeBalance ==
    [][\A w \in TxWorkers :
          ( /\ IsTx(w) /\ HasRead(w)
            /\ Data[w].Type = "WITHDRAWAL"
            /\ Data[w].Amount > 0
            /\ Data[w].Amount = currentBalance[w] ) =>
              /\ err[w] \notin ValidationErrors \cup {"insufficient funds"}
              /\ (pc[w] = "commit" /\ pc'[w] = "index") =>
                    /\ accounts'[Data[w].AccountNumber].available_balance = 0
                    /\ TransactionDoc(Data'[w], err'[w]).status = "COMPLETED"
                    /\ TransactionDoc(Data'[w], err'[w]).balance_after_transaction = 0]_vars

\* C27: once the message source is closed it stays closed and no delivery is
\* taken any more; a worker leaves its loop only then, from waiting on the
\* channel and holding nothing, and stays out; every worker eventually does;
\* and when all have, every delivery that was taken has been acknowledged
\* once.
C27_DrainAndExit ==
    /\ [][closed => (closed' /\ delivered' = delivered)]_vars
    /\ [][\A w \in Workers :
            /\ pc[w] = "exited" => pc'[w] = "exited"
            /\ (pc[w] # "exited" /\ pc'[w] = "exited") =>
                  closed /\ pc[w] = "idle" /\ tag[w] = 0]_vars
    /\ []((\A w \in Workers : pc[w] = "exited") =>
              \A t \in 1..delivered : acks[t] = 1)
    /\ \A w \in Workers : closed ~> (pc[w] = "exited")

\* The source was closed while a worker held a delivery; all workers are out
\* of their loops, that delivery is acknowledged and no other was taken.
C27_Witness ==
    /\ closed
    /\ \A w \in Workers : pc[w] = "exited"
    /\ delivered = 1
    /\ acks[1] = 1
    /\ 1 \in DOMAIN esIndex

\* The body is not JSON, or a field tagged required is absent or holds the
\* zero value of its type.
FailsBinding(h, req) ==
    \/ "malformed" \in DOMAIN req
    \/ \E k \in IF h = "createAccount"
                THEN {"accountHolderName", "branchCode", "initialDeposit"}
                ELSE {"accountNumber", "amount", "type"} :
          \/ k \notin DOMAIN req
          \/ req[k] = IF k \in {"initialDeposit", "amount"} THEN 0 ELSE ""

\* The ids carried by the messages published so far.
PublishedIds ==
    {api.published[i].body[IF api.published[i].key = "account_creator"
                           THEN "referenceID" ELSE "transactionId"]
        : i \in 1..Len(api.published)}

GeneratedFrom(b) == {GenerateAccountNumber(b, nano) : nano \in Nanos}

\* C32: once CreateAccount has passed its validation, the account number it
\* works with is one generated from the message's branch code, whatever
\* accountNumber the message carried; the row is inserted under that number
\* and the audit document of the creation carries it.  No row and no audit
\* document ever carries the number a payload brought.
C32_NumberGeneratedByProcessor ==
    /\ [](\A w \in Creators :
            pc[w] \in {"insert", "index"} =>
                /\ Data[w].AccountNumber \in GeneratedFrom(Data[w].BranchCode)
                /\ AccountDoc(Data[w]).account_number = Data[w].AccountNumber)
    /\ [](/\ PayloadNumber \notin DOMAIN accounts
          /\ \A t \in DOMAIN esIndex : esIndex[t].account_number # PayloadNumber)
    /\ [][\A w \in Creators :
            (pc[w] = "insert" /\ pc'[w] = "index") =>
                /\ DOMAIN accounts' = DOMAIN accounts \cup {Data[w].AccountNumber}
                /\ Data'[w].AccountNumber = Data[w].AccountNumber]_vars

\* The message that brought its own accountNumber was processed: its audit
\* document carries a generated number, under which the ledger holds the
\* new account.
C32_Witness ==
    \E t \in DOMAIN esIndex :
        /\ esIndex[t].transaction_id = "REF2"
        /\ esIndex[t].account_number \in GeneratedFrom("BR1")
        /\ esIndex[t].account_number \in DOMAIN accounts
        /\ accounts[esIndex[t].account_number].account_holder_name = "H1"

\* C33: when no transaction is in progress and the audit record of every
\* transaction attempt made so far has status FAILED, every account's
\* committed balance is the one it started with.
C33_FailedLeavesLedgerUnchanged ==
    ( /\ \A w \in TxWorkers : pc[w] = "idle"
      /\ \A t \in 1..delivered :
            t \in DOMAIN esIndex /\ esIndex[t].status = "FAILED" )
        => \A a \in DOMAIN accounts :
              accounts[a].available_balance = initialBalance[a]

\* The uncommitted balance written for account a on the shared connection,
\* <<>> when there is none.
PendingOf(a) ==
    LET pend == sess["transaction_processor"].pending
    IN IF a \in DOMAIN pend THEN <<pend[a]>> ELSE <<>>

\* C34: while a worker stands between its UPDATE and its Commit, no step of
\* another worker touches its account's committed row or its uncommitted
\* write; and the step in which its Commit succeeds, after which it reports
\* COMPLETED, leaves the committed balance of its account at the balance
\* its UPDATE wrote.
C34_CompletedIsDurable ==
    [][\A w \in TxWorkers :
          pc[w] = "commit" =>
              LET a == Data[w].AccountNumber
              IN
              /\ pc'[w] = "commit" =>
                    /\ a \in DOMAIN accounts => accounts'[a] = accounts[a]
                    /\ PendingOf(a)' = PendingOf(a)
              /\ pc'[w] = "index" =>
                    /\ TransactionDoc(Data'[w], err'[w]).status = "COMPLETED"
                    /\ accounts'[a].available_balance =
                           ToDecimal2(Data[w].AvailableBalance)]_vars

\* C35: when the source is closed and every worker has left its loop, the
\* counter of the wait group is zero, and from then on main's wg.Wait()
\* eventually returns.
C35_WaitReturns ==
    /\ []((closed /\ \A w \in Workers : pc[w] = "exited") => main.wg = 0)
    /\ (closed /\ \A w \in Workers : pc[w] = "exited") ~> (main.pc = "returned")

\* The worker is inside transact, after its Begin.
InTransact(w) == pc[w] \in {"query", "update", "commit", "rollback"}

\* C36: a worker that holds a delivery can always take its next step, and
\* every delivery a worker holds is eventually acknowledged; the step in
\* which a worker leaves transact after its Begin succeeded is a Commit or
\* the deferred Rollback and leaves the session without an open block and
\* without row locks; and a session has an open block or row locks only
\* while some worker is inside transact.
C36_EveryMessageAcknowledged ==
    /\ [](\A w \in Workers : pc[w] # "idle" => ENABLED Process(w))
    /\ \A t \in Tags : (\E w \in Workers : tag[w] = t) ~> (acks[t] = 1)
    /\ [][\A w \in TxWorkers :
            (InTransact(w) /\ pc'[w] = "index") =>
                /\ pc[w] \in {"commit", "rollback"}
                /\ sess'[connOf(w)] = IdleSession]_vars
    /\ [](\A c \in Conns :
            sess[c] # IdleSession => \E w \in TxWorkers : connOf(w) = c /\ InTransact(w))

\* Two workers are inside transact on one account, one of them on its way
\* out through the deferred Rollback.
C36_Witness ==
    \E w1, w2 \in TxWorkers :
        /\ w1 # w2
        /\ pc[w1] = "rollback"
        /\ pc[w2] \in {"query", "update", "commit"}
        /\ Data[w1].AccountNumber = Data[w2].AccountNumber
        /\ sess[connOf(w1)].locks # {}

\* C37: with a single transaction message published, however often it is
\* delivered, every account's committed balance is the one it started with
\* or differs from it by the amount of the message, applied once.
C37_AppliedAtMostOnce ==
    \A a \in DOMAIN accounts :
        accounts[a].available_balance \in
            {initialBalance[a], initialBalance[a] + 4, initialBalance[a] - 4}

\* The audit index holds a COMPLETED record of another transaction on
\* account a than the one delivered under tag t.
OtherCompleted(a, t) ==
    \E t2 \in DOMAIN esIndex :
        /\ t2 # t
        /\ esIndex[t2].account_number = a
        /\ esIndex[t2].type \in {"DEPOSIT", "WITHDRAWAL"}
        /\ esIndex[t2].transaction_id = "TX1"
        /\ esIndex[t2].status = "COMPLETED"

\* C38: when a worker's COMPLETED record is indexed after the COMPLETED
\* record of another transaction on the same account, and no other worker
\* is busy with that account, then this record - now the account's most
\* recent one - carries the account's committed balance.
C38_AuditOrderIsCommitOrder ==
    [][\A w \in TxWorkers :
          ( /\ pc[w] = "index" /\ err[w] = "nil"
            /\ tag[w] \in DOMAIN esIndex'
            /\ OtherCompleted(Data[w].AccountNumber, tag[w])
            /\ \A w2 \in TxWorkers \ {w} : pc[w2] = "idle" ) =>
              esIndex'[tag[w]].balance_after_transaction =
                  accounts[Data[w].AccountNumber].available_balance]_vars

\* The number CreateAccount generated for w is already a row of the ledger.
Collides(w) ==
    /\ w \in Creators
    /\ pc[w] = "insert"
    /\ Data[w].AccountNumber \in DOMAIN accounts

\* C39: the INSERT of a number that already exists fails and changes no
\* row; CreateAccount returns that error without a call of the audit index;
\* a creation that failed has no audit record; and the worker's next step
\* acknowledges the delivery.
C39_DuplicateNumberRejected ==
    /\ [][\A w \in Creators :
            (Collides(w) /\ StepOf(w)) =>
                /\ accounts' = accounts
                /\ pc'[w] = "ack"
                /\ err'[w] = "failed to create account"
                /\ result'[w] = "failed to create account"
                /\ esIndex' = esIndex /\ indexAttempts' = indexAttempts]_vars
    /\ [](\A w \in Creators :
            (pc[w] = "ack" /\ err[w] = "failed to create account") =>
                /\ tag[w] \notin DOMAIN esIndex
                /\ indexAttempts[tag[w]] = 0
                /\ acks[tag[w]] = 0)
    /\ [][\A w \in Creators :
            (pc[w] = "ack" /\ StepOf(w)) =>
                acks'[tag[w]] = 1 /\ pc'[w] = "idle"]_vars

\* A creation whose generated number was taken has failed: the seeded row
\* under that number is as it was, and the delivery waits for its d.Ack.
C39_Witness ==
    \E w \in Creators :
        /\ pc[w] = "ack"
        /\ err[w] = "failed to create account"
        /\ Data[w].AccountNumber \in DOMAIN accounts
        /\ accounts[Data[w].AccountNumber].account_holder_name = "H0"
        /\ accounts[Data[w].AccountNumber].available_balance =
               initialBalance[Data[w].AccountNumber]

====
